---------------------------- MODULE Spec2Model ----------------------------
(***************************************************************************)
(* Model of the two utilities of the Aeropostale dashboard that carry      *)
(* state: the tagged TTL cache (SmartCache, src/modules/database.py) and   *)
(* the backup archiver (BackupSystem, src/modules/backup.py).              *)
(*                                                                         *)
(* Time is a discrete clock `now`: every reading of datetime.now() inside  *)
(* one locked operation returns the current tick, and several operations   *)
(* may run within one tick (the clock has finite resolution).              *)
(***************************************************************************)
EXTENDS Integers, Sequences, FiniteSets, TLC

(* ------------------------------ bounds -------------------------------- *)
MaxTime == 2
MaxOps == 5

Keys == {"a", "b", "c"}
Values == {"v1", "v2"}
Tags == {"t1", "t2"}
TagLists == {<<>>, <<"t1">>, <<"t2", "t1", "t2">>}
None == "None"
Defaults == {None, "dflt"}
TTLs == {0, 1}
MaxSizes == {1, 2}

VARIABLES
    cache,        \* SmartCache.cache: the entries, in dict (insertion) order
    stats,        \* SmartCache.stats
    max_size,     \* SmartCache.max_size
    last,         \* the last call on the cache: its name, argument and result
    archives,     \* the backup_*.zip files of BackupSystem.backup_dir
    restore_temp, \* the directory backup_dir/restore_temp
    app_fs,       \* the application's working directory: path -> content
    max_backups,  \* BackupSystem.max_backups
    fs_time,      \* the file system's modification clock
    created,      \* the number of create_backup calls that returned a path
    result,       \* the last call on the archiver, and what it did
    temp,         \* the working directories under backup_dir/temp
    memo,         \* the calls of a memoize wrapper, and the last of them
    conc,         \* the lock of the cache and the threads that call it
    sched,        \* the thread started by schedule_backup
    sched2,       \* the thread started by a second schedule_backup
    jobs,         \* the create_backup calls of two threads, step by step
    namespaces,   \* CacheManager.namespaces and the get_namespace calls
    now,          \* the clock read by datetime.now()
    calls         \* the number of calls made so far

cacheVars == <<cache, stats, max_size, last>>
backupVars == <<archives, restore_temp, app_fs, max_backups, fs_time,
                created, result, temp>>
\* the wrapper, the threads and the scheduler around the two objects
otherVars == <<memo, conc, sched, sched2, jobs, namespaces>>
vars == <<cacheVars, backupVars, otherVars, now, calls>>

\* Every call is counted; the model follows the first MaxOps calls.
Call == calls < MaxOps /\ calls' = calls + 1

(* ------------------------- Python dict helpers ------------------------ *)
Range(s) == {s[i] : i \in DOMAIN s}

KeysOf(d) == {d[i].key : i \in DOMAIN d}

IndexOf(d, k) == CHOOSE i \in DOMAIN d : d[i].key = k

Lookup(d, k) == d[IndexOf(d, k)]

DictDel(d, k) == SelectSeq(d, LAMBDA e : e.key # k)

DictPut(d, e) ==
    IF e.key \in KeysOf(d) THEN [d EXCEPT ![IndexOf(d, e.key)] = e]
    ELSE Append(d, e)

(* ------------------------------ CacheEntry ---------------------------- *)
CacheEntry(key, value, ttl, t) ==
    [key |-> key, value |-> value, created_at |-> t, ttl |-> ttl,
     access_count |-> 0, last_accessed |-> t, tags |-> <<>>]

is_expired_inclusive(entry, t) == (t - entry.created_at) >= entry.ttl

is_expired(entry, t) == (t - entry.created_at) > entry.ttl

access(entry, t) ==
    [entry EXCEPT !.access_count = @ + 1, !.last_accessed = t]

add_tag(entry, tag) ==
    IF tag \in Range(entry.tags) THEN entry
    ELSE [entry EXCEPT !.tags = Append(@, tag)]

has_tag_first_only(entry, tag) == entry.tags # <<>> /\ entry.tags[1] = tag

has_tag(entry, tag) == tag \in Range(entry.tags)

RECURSIVE AddTags(_, _)
AddTags(entry, tags) ==
    IF tags = <<>> THEN entry
    ELSE AddTags(add_tag(entry, Head(tags)), Tail(tags))

(* ------------------------------ SmartCache ---------------------------- *)
\* The scan of _evict_oldest: the first entry (in dict order) whose
\* last_accessed is strictly below every one before it and below the clock
\* reading taken before the scan.
RECURSIVE EvictScan(_, _, _, _)
EvictScan(d, i, oldest_key, oldest_time) ==
    IF i > Len(d) THEN oldest_key
    ELSE IF d[i].last_accessed < oldest_time
         THEN EvictScan(d, i + 1, d[i].key, d[i].last_accessed)
         ELSE EvictScan(d, i + 1, oldest_key, oldest_time)

Truthy(k) == k # None /\ k # ""

\* _evict_oldest: the cache and the statistics after it
EvictOldest(d, st, t) ==
    IF d = <<>> THEN [cache |-> d, stats |-> st]
    ELSE LET oldest_key == EvictScan(d, 1, None, t) IN
         IF Truthy(oldest_key)
         THEN LET d2 == DictDel(d, oldest_key) IN
              [cache |-> d2,
               stats |-> [st EXCEPT !.evictions = @ + 1, !.size = Len(d2)]]
         ELSE [cache |-> d, stats |-> st]

\* no wrapped function has been called
NoMemo == [op |-> "none", key |-> None, computed |-> None, ret |-> None,
           hit |-> FALSE, invoked |-> 0, invocations |-> 0]

NoThread == "none"

\* two threads of the application and the cleanup thread the constructor
\* starts
Threads == {"user1", "user2", "cleanup"}

Idle == [pc |-> "idle", op |-> "none", key |-> None, todo |-> <<>>,
         deleted |-> 0, ret |-> None, snap |-> <<>>, snap_stats |-> <<>>,
         t0 |-> 0]

\* the two threads of the application
Users == {"user1", "user2"}

\* an empty CacheManager.namespaces, no SmartCache made for a namespace and
\* no thread inside get_namespace
NoNamespaces ==
    [reg |-> [n \in {} |-> 0], made |-> 0, returned |-> {},
     thr |-> [u \in Users |-> [pc |-> "idle", namespace |-> "", ret |-> 0]]]

\* no thread is inside the cache
NoThreads == [lock |-> NoThread, thr |-> [t \in Threads |-> Idle]]

CacheInit(sizes) ==
    /\ cache = <<>>
    /\ stats = [hits |-> 0, misses |-> 0, evictions |-> 0,
                expirations |-> 0, size |-> 0]
    /\ max_size \in sizes
    /\ now = 0
    /\ calls = 0
    /\ last = [op |-> "init", arg |-> None, ret |-> None]
    /\ memo = NoMemo
    /\ conc = NoThreads
    /\ namespaces = NoNamespaces

\* get: the cache, the statistics and the value returned
DoGet(d, st, key, default, t) ==
    IF key \in KeysOf(d)
    THEN LET entry == Lookup(d, key) IN
         IF is_expired(entry, t)
         THEN LET d2 == DictDel(d, key) IN
              [cache |-> d2,
               stats |-> [st EXCEPT !.expirations = @ + 1, !.misses = @ + 1,
                                    !.size = Len(d2)],
               ret |-> default]
         ELSE [cache |-> DictPut(d, access(entry, t)),
               stats |-> [st EXCEPT !.hits = @ + 1],
               ret |-> entry.value]
    ELSE [cache |-> d, stats |-> [st EXCEPT !.misses = @ + 1],
          ret |-> default]

Get(key, default) ==
    LET r == DoGet(cache, stats, key, default, now)
    IN /\ Call
       /\ cache' = r.cache
       /\ stats' = r.stats
       /\ last' = [op |-> "get", arg |-> key, ret |-> r.ret]
       /\ UNCHANGED <<max_size, now, backupVars, otherVars>>

DoSet_evict_when_full(d, st, maxsz, key, value, ttl, tags, t) ==
    LET ev == IF Len(d) >= maxsz
              THEN EvictOldest(d, st, t)
              ELSE [cache |-> d, stats |-> st]
        entry == AddTags(CacheEntry(key, value, ttl, t), tags)
        d2 == DictPut(ev.cache, entry)
    IN [cache |-> d2, stats |-> [ev.stats EXCEPT !.size = Len(d2)]]

\* set: the cache and the statistics after it
DoSet(d, st, maxsz, key, value, ttl, tags, t) ==
    LET ev == IF Len(d) >= maxsz /\ key \notin KeysOf(d)
              THEN EvictOldest(d, st, t)
              ELSE [cache |-> d, stats |-> st]
        entry == AddTags(CacheEntry(key, value, ttl, t), tags)
        d2 == DictPut(ev.cache, entry)
    IN [cache |-> d2, stats |-> [ev.stats EXCEPT !.size = Len(d2)]]

Set(key, value, ttl, tags) ==
    LET r == DoSet(cache, stats, max_size, key, value, ttl, tags, now)
    IN /\ cache' = r.cache
       /\ stats' = r.stats
       /\ last' = [op |-> "set", arg |-> key, ret |-> None]
       /\ Call
       /\ UNCHANGED <<max_size, now, backupVars, otherVars>>

CleanupExpired ==
    LET expired_keys == SelectSeq(cache, LAMBDA e : is_expired(e, now))
        d2 == SelectSeq(cache, LAMBDA e : ~is_expired(e, now))
    IN /\ cache' = d2
       /\ stats' = IF expired_keys # <<>>
                   THEN [stats EXCEPT !.expirations = @ + Len(expired_keys),
                                      !.size = Len(d2)]
                   ELSE stats
       /\ last' = [op |-> "sweep", arg |-> None, ret |-> None]
       /\ Call
       /\ UNCHANGED <<max_size, now, backupVars, otherVars>>

ExpiredKeys_touched(d, t) ==
    SelectSeq(d, LAMBDA e : is_expired(e, t) /\ e.access_count > 0)

\* expired_keys of _cleanup_expired: the entries is_expired() holds for
ExpiredKeys(d, t) == SelectSeq(d, LAMBDA e : is_expired(e, t))

\* One round of cleanup_loop, the daemon thread the constructor starts:
\* _cleanup_expired() under the lock, then time.sleep(60).  The thread is
\* no caller of the cache, so the round is not counted as a call.
CleanupLoop ==
    LET expired_keys == ExpiredKeys(cache, now)
        d2 == SelectSeq(cache, LAMBDA e : e \notin Range(expired_keys))
    IN /\ cache' = d2
       /\ stats' = IF expired_keys # <<>>
                   THEN [stats EXCEPT !.expirations = @ + Len(expired_keys),
                                      !.size = Len(d2)]
                   ELSE stats
       /\ last' = [op |-> "sweep", arg |-> None, ret |-> None]
       /\ UNCHANGED <<max_size, now, calls, backupVars, otherVars>>

Invalidate_stale_size(key) ==
    /\ Call
    /\ IF key \in KeysOf(cache)
       THEN /\ cache' = DictDel(cache, key)
            /\ stats' = stats
            /\ last' = [op |-> "invalidate", arg |-> key, ret |-> TRUE]
       ELSE /\ UNCHANGED <<cache, stats>>
            /\ last' = [op |-> "invalidate", arg |-> key, ret |-> FALSE]
    /\ UNCHANGED <<max_size, now, backupVars, otherVars>>

Invalidate(key) ==
    /\ Call
    /\ IF key \in KeysOf(cache)
       THEN LET d2 == DictDel(cache, key) IN
            /\ cache' = d2
            /\ stats' = [stats EXCEPT !.size = Len(d2)]
            /\ last' = [op |-> "invalidate", arg |-> key, ret |-> TRUE]
       ELSE /\ UNCHANGED <<cache, stats>>
            /\ last' = [op |-> "invalidate", arg |-> key, ret |-> FALSE]
    /\ UNCHANGED <<max_size, now, backupVars, otherVars>>

InvalidateByTag(tag) ==
    LET keys_to_delete == SelectSeq(cache, LAMBDA e : has_tag(e, tag))
        d2 == SelectSeq(cache, LAMBDA e : ~has_tag(e, tag))
    IN /\ cache' = d2
       /\ stats' = [stats EXCEPT !.size = Len(d2)]
       /\ last' = [op |-> "invalidate_by_tag", arg |-> tag,
                   ret |-> Len(keys_to_delete)]
       /\ Call
       /\ UNCHANGED <<max_size, now, backupVars, otherVars>>

\* fnmatch.fnmatch on the keys and patterns of the model: "*" matches every
\* key, a character class matches the keys it lists, "*text*" matches the
\* keys in which text occurs, any other pattern is a literal.
fnmatch(key, pattern) ==
    CASE pattern = "*" -> TRUE
      [] pattern = "[ab]" -> key \in {"a", "b"}
      [] /\ Len(pattern) > 2
         /\ SubSeq(pattern, 1, 1) = "*"
         /\ SubSeq(pattern, Len(pattern), Len(pattern)) = "*" ->
            LET text == SubSeq(pattern, 2, Len(pattern) - 1) IN
            \E i \in 1..(Len(key) - Len(text) + 1) :
                SubSeq(key, i, i + Len(text) - 1) = text
      [] OTHER -> key = pattern

InvalidateByPattern(pattern) ==
    LET keys_to_delete == SelectSeq(cache, LAMBDA e : fnmatch(e.key, pattern))
        d2 == SelectSeq(cache, LAMBDA e : ~fnmatch(e.key, pattern))
    IN /\ cache' = d2
       /\ stats' = [stats EXCEPT !.size = Len(d2)]
       /\ last' = [op |-> "invalidate_by_pattern", arg |-> pattern,
                   ret |-> Len(keys_to_delete)]
       /\ Call
       /\ UNCHANGED <<max_size, now, backupVars, otherVars>>

Clear_reset_stats ==
    /\ Call
    /\ cache' = <<>>
    /\ stats' = [hits |-> 0, misses |-> 0, evictions |-> 0,
                 expirations |-> 0, size |-> 0]
    /\ last' = [op |-> "clear", arg |-> None, ret |-> None]
    /\ UNCHANGED <<max_size, now, backupVars, otherVars>>

Clear ==
    /\ Call
    /\ cache' = <<>>
    /\ stats' = [stats EXCEPT !.size = 0]
    /\ last' = [op |-> "clear", arg |-> None, ret |-> None]
    /\ UNCHANGED <<max_size, now, backupVars, otherVars>>

\* hit_rate as get_stats renders it, f"{hit_rate:.1f}%": the number of tenths of
\* a percent nearest to 100*hits/total (ties to the even tenth).
Format1f_truncating(hits, total) == (1000 * hits) \div total

Format1f(hits, total) ==
    LET q == (1000 * hits) \div total
        r == (1000 * hits) % total
    IN IF 2 * r > total \/ (2 * r = total /\ q % 2 = 1) THEN q + 1 ELSE q

GetStats ==
    LET total_accesses == stats.hits + stats.misses
        hit_rate == IF total_accesses > 0
                    THEN Format1f(stats.hits, total_accesses) ELSE 0
        efficiency ==
            IF total_accesses > 0 /\ 100 * stats.hits > 80 * total_accesses
            THEN "alta"
            ELSE IF total_accesses > 0 /\ 100 * stats.hits > 50 * total_accesses
                 THEN "media" ELSE "baja"
    IN /\ Call
       /\ last' = [op |-> "get_stats", arg |-> None,
                   ret |-> [hits |-> stats.hits, misses |-> stats.misses,
                            evictions |-> stats.evictions,
                            expirations |-> stats.expirations,
                            size |-> stats.size, hit_rate |-> hit_rate,
                            efficiency |-> efficiency]]
       /\ UNCHANGED <<cache, stats, max_size, now, backupVars, otherVars>>

\* The clock advances; no call is made.
Tick ==
    /\ now < MaxTime
    /\ now' = now + 1
    /\ UNCHANGED <<cacheVars, backupVars, otherVars, calls>>

(* ------------------------ SmartCache under threads -------------------- *)
\* `with self.lock:` on entry: the RLock is free
CanAcquire_unlocked(lock, t) == TRUE

CanAcquire(lock, t) == lock = NoThread

SeqKeys(es) == [i \in 1..Len(es) |-> es[i].key]

\* the list an operation builds before its deleting loop
ScanKeys(o, d, t) ==
    CASE o.name = "sweep" -> SeqKeys(SelectSeq(d, LAMBDA e : is_expired(e, t)))
      [] o.name = "invalidate_by_tag" ->
            SeqKeys(SelectSeq(d, LAMBDA e : has_tag(e, o.key)))
      [] o.name = "invalidate_by_pattern" ->
            SeqKeys(SelectSeq(d, LAMBDA e : fnmatch(e.key, o.key)))

ScanOps == {"sweep", "invalidate_by_tag", "invalidate_by_pattern"}

\* the operations whose body is one step of the model
ApplyOp(o, d, st, maxsz, t) ==
    CASE o.name = "get" -> DoGet(d, st, o.key, None, t)
      [] o.name = "set" ->
            LET r == DoSet(d, st, maxsz, o.key, "v1", o.ttl, o.tags, t)
            IN [cache |-> r.cache, stats |-> r.stats, ret |-> None]
      [] o.name = "invalidate" ->
            IF o.key \in KeysOf(d)
            THEN LET d2 == DictDel(d, o.key) IN
                 [cache |-> d2, stats |-> [st EXCEPT !.size = Len(d2)],
                  ret |-> "True"]
            ELSE [cache |-> d, stats |-> st, ret |-> "False"]
      [] o.name = "clear" ->
            [cache |-> <<>>, stats |-> [st EXCEPT !.size = 0], ret |-> None]
      [] o.name = "get_stats" ->
            [cache |-> d, stats |-> st, ret |-> None]

\* thread t enters operation o: it takes the lock and runs the body up to
\* its deleting loop
Begin(t, o) ==
    /\ Call
    /\ conc.thr[t].pc = "idle"
    /\ CanAcquire(conc.lock, t)
    /\ (t = "cleanup") <=> (o.name = "sweep")
    /\ IF o.name \in ScanOps
       THEN /\ conc' = [lock |-> t,
                        thr |-> [conc.thr EXCEPT ![t] =
                           [pc |-> "scan", op |-> o.name, key |-> o.key,
                            todo |-> ScanKeys(o, cache, now), deleted |-> 0,
                            ret |-> None, snap |-> cache,
                            snap_stats |-> stats, t0 |-> now]]]
            /\ UNCHANGED <<cache, stats>>
       ELSE LET r == ApplyOp(o, cache, stats, max_size, now) IN
            /\ cache' = r.cache
            /\ stats' = r.stats
            /\ conc' = [lock |-> t,
                        thr |-> [conc.thr EXCEPT ![t] =
                           [pc |-> "done", op |-> o.name, key |-> o.key,
                            todo |-> <<>>, deleted |-> 0, ret |-> r.ret,
                            snap |-> cache, snap_stats |-> stats,
                            t0 |-> now]]]
    /\ UNCHANGED <<max_size, last, now, backupVars, memo, sched, sched2, jobs, namespaces>>

\* one iteration of the deleting loop: del self.cache[key], which raises
\* KeyError when the key is gone
DeleteNext(t) ==
    LET me == conc.thr[t]
        key == Head(me.todo)
    IN /\ me.pc = "scan"
       /\ me.todo # <<>>
       /\ IF key \in KeysOf(cache)
          THEN /\ cache' = DictDel(cache, key)
               /\ stats' = IF me.op = "sweep"
                           THEN [stats EXCEPT !.expirations = @ + 1]
                           ELSE stats
               /\ conc' = [conc EXCEPT !.thr[t].todo = Tail(@),
                                       !.thr[t].deleted = @ + 1]
          ELSE /\ conc' = [conc EXCEPT !.thr[t].pc = "done",
                                       !.thr[t].todo = <<>>,
                                       !.thr[t].ret = "KeyError"]
               /\ UNCHANGED <<cache, stats>>
       /\ UNCHANGED <<max_size, last, now, calls, backupVars, memo, sched, sched2, jobs, namespaces>>

\* thread t leaves its operation: the size is recorded after a loop, the
\* lock is released
End(t) ==
    LET me == conc.thr[t]
    IN /\ \/ me.pc = "done"
          \/ me.pc = "scan" /\ me.todo = <<>>
       /\ stats' = IF me.pc = "scan" /\ (me.op # "sweep" \/ me.deleted > 0)
                   THEN [stats EXCEPT !.size = Len(cache)]
                   ELSE stats
       /\ last' = [op |-> me.op, arg |-> me.key,
                   ret |-> IF me.pc = "scan" /\ me.op # "sweep"
                           THEN me.deleted ELSE me.ret]
       /\ conc' = [lock |-> IF conc.lock = t THEN NoThread ELSE conc.lock,
                   thr |-> [conc.thr EXCEPT ![t] = Idle]]
       /\ UNCHANGED <<cache, max_size, now, calls, backupVars, memo, sched, sched2, jobs, namespaces>>

\* One step of a cache that several threads call.
ConcNext(ops) ==
    \/ \E t \in Threads, o \in ops : Begin(t, o)
    \/ \E t \in Threads : DeleteNext(t)
    \/ \E t \in Threads : End(t)
    \/ Tick

(* ----------------------------- CacheManager --------------------------- *)
\* _generate_function_key: the md5 digest of the function's __name__ and the
\* text of its arguments; equal names and arguments give equal keys
\* _generate_function_key for one positional argument and no keyword
\* argument: str(args) is "(x,)", str(sorted(kwargs.items())) is "[]", and
\* the key is hashlib.md5(key_data.encode()).hexdigest()
generate_function_key(func_name, args) ==
    LET key_data == func_name \o "_(" \o ToString(args) \o ",)_[]" IN
    CASE key_data = "kpis_(1,)_[]" -> "c64f8415857bcb428f4cfb99396d0d4d"
      [] key_data = "kpis_(2,)_[]" -> "5ec1cd7ed8d1cb8da57824f81e63e7a5"

\* One call of the wrapper that memoize(ttl, tags) puts around the function
\* func_name, on a namespace that exists; computed is what the function
\* returns if it is invoked.
Memoize(ttl, tags, func_name, args, computed) ==
    LET cache_key == generate_function_key(func_name, args)
        got == DoGet(cache, stats, cache_key, None, now)
        cached_result == got.ret
        put == DoSet(got.cache, got.stats, max_size, cache_key, computed,
                     ttl, tags, now)
        live == /\ cache_key \in KeysOf(cache)
                /\ ~is_expired(Lookup(cache, cache_key), now)
    IN /\ Call
       /\ IF cached_result # None
          THEN /\ cache' = got.cache
               /\ stats' = got.stats
               /\ memo' = [op |-> "call", key |-> cache_key,
                           computed |-> computed, ret |-> cached_result,
                           hit |-> live, invoked |-> 0,
                           invocations |-> memo.invocations]
               /\ last' = [op |-> "memoize", arg |-> cache_key,
                           ret |-> cached_result]
          ELSE /\ cache' = put.cache
               /\ stats' = put.stats
               /\ memo' = [op |-> "call", key |-> cache_key,
                           computed |-> computed, ret |-> computed,
                           hit |-> live, invoked |-> 1,
                           invocations |-> memo.invocations + 1]
               /\ last' = [op |-> "memoize", arg |-> cache_key,
                           ret |-> computed]
       /\ UNCHANGED <<max_size, now, backupVars, conc, sched, sched2, jobs, namespaces>>

\* invalidate_function_cache(func_name, namespace) on a namespace that
\* exists
InvalidateFunctionCache(func_name) ==
    InvalidateByPattern("*" \o func_name \o "*")

\* One step of a cache whose callers draw their arguments from the sets of
\* the record dom.
CacheNext(dom) ==
    \/ \E k \in dom.keys, d \in dom.defaults : Get(k, d)
    \/ \E k \in dom.keys, v \in dom.values, ttl \in dom.ttls,
          tg \in dom.taglists : Set(k, v, ttl, tg)
    \/ CleanupExpired
    \/ \E k \in dom.keys : Invalidate(k)
    \/ \E t \in dom.tags : InvalidateByTag(t)
    \/ \E p \in dom.patterns : InvalidateByPattern(p)
    \/ Clear
    \/ GetStats
    \/ Tick

\* get_namespace(namespace) takes no lock: the membership test, the
\* construction and assignment of a SmartCache, and the final lookup are
\* steps of the calling thread.  namespaces.reg is the dict (the instance
\* stored for a namespace), made the number of instances constructed so far,
\* returned the pairs of namespace and instance handed to callers.

\* `if namespace not in self.namespaces:`
NsTest(u, n) ==
    /\ Call
    /\ namespaces.thr[u].pc = "idle"
    /\ namespaces' = [namespaces EXCEPT !.thr[u] =
          [pc |-> IF n \in DOMAIN namespaces.reg THEN "return" ELSE "create",
           namespace |-> n, ret |-> 0]]
    /\ UNCHANGED <<cacheVars, backupVars, memo, conc, sched, sched2, jobs,
                   now>>

\* `self.namespaces[namespace] = SmartCache(max_size=500)`
NsCreate(u) ==
    LET c == namespaces.made + 1
        n == namespaces.thr[u].namespace
    IN /\ namespaces.thr[u].pc = "create"
       /\ namespaces' = [namespaces EXCEPT
             !.made = c,
             !.reg = [m \in DOMAIN @ \cup {n} |-> IF m = n THEN c ELSE @[m]],
             !.thr[u].pc = "return"]
       /\ UNCHANGED <<cacheVars, backupVars, memo, conc, sched, sched2, jobs,
                      now, calls>>

\* `return self.namespaces[namespace]`
NsReturn(u) ==
    LET n == namespaces.thr[u].namespace
        c == namespaces.reg[n]
    IN /\ namespaces.thr[u].pc = "return"
       /\ namespaces' = [namespaces EXCEPT
             !.thr[u] = [pc |-> "idle", namespace |-> n, ret |-> c],
             !.returned = @ \cup {<<n, c>>}]
       /\ UNCHANGED <<cacheVars, backupVars, memo, conc, sched, sched2, jobs,
                      now, calls>>

(* ----------------------------- BackupSystem --------------------------- *)
\* A path is <<folder, file name>>; a directory or an archive is a function
\* from paths to contents, with the state of its metadata.json beside it.
Tables == {"daily_kpis", "trabajadores", "guide_stores", "guide_senders",
           "guide_logs", "distribuciones_semanales"}

ConfigFiles == {<<"", "config.json">>, <<"", ".env">>,
                <<"data_wilo", "email_config.json">>,
                <<"data_wilo", "gemini_config.json">>,
                <<"data_wilo", "novedades_database.json">>}

NoFiles == [p \in {} |-> ""]

NoMeta == [state |-> "absent", type |-> "", description |-> "", timestamp |-> 0]

Merge(f, g) ==
    [p \in (DOMAIN f) \cup (DOMAIN g) |-> IF p \in DOMAIN g THEN g[p] ELSE f[p]]

Without(f, ks) == [p \in (DOMAIN f) \ ks |-> f[p]]

\* description[:50].replace(' ', '_') on the descriptions of the model
DescSlug(description) ==
    IF description = "pre deploy" THEN "pre_deploy" ELSE description

BackupName_per_call(backup_type, t, description) ==
    <<backup_type, t, DescSlug(description) \o "#" \o ToString(calls)>>

\* the archive's file name: backup_<type>_<YYYYmmdd_HHMMSS>[_<slug>].zip
BackupName(backup_type, t, description) ==
    <<backup_type, t, DescSlug(description)>>

\* _backup_database: the files it writes under temp_dir/database
BackupDatabase(fetch) ==
    IF ~fetch.db_up THEN NoFiles
    ELSE LET dumped == {t \in Tables : fetch.rows[t] = "rows"} IN
         [p \in {<<"database", t>> : t \in dumped \cup {"schema_info"}} |->
             IF p[2] = "schema_info" THEN "schema" ELSE "rows"]

\* _backup_database: the entries it appends to metadata['contents']
DatabaseContents(fetch) ==
    IF ~fetch.db_up THEN {}
    ELSE {<<"database", t>> : t \in {x \in Tables : fetch.rows[x] = "rows"}}

\* _backup_configs: the listed files that exist, under their base names
BackupConfigs(fs) ==
    LET present == ConfigFiles \cap DOMAIN fs IN
    [p \in {<<"config", c[2]>> : c \in present} |->
        fs[CHOOSE c \in present : c[2] = p[2]]]

\* _backup_wilo_data: the data_wilo tree
BackupWiloData(fs) ==
    LET tree == {p \in DOMAIN fs : p[1] = "data_wilo"} IN
    [p \in {<<"wilo_data", q[2]>> : q \in tree} |-> fs[<<"data_wilo", p[2]>>]]

\* _backup_logs: the *.log files of logs/
BackupLogs(fs) ==
    LET logs == {p \in DOMAIN fs : p[1] = "logs"} IN
    [p \in logs |-> fs[p]]

\* _full_backup on a working directory fs in which the files of unreadable
\* cannot be copied: shutil.copy2 raises on them inside the loops of
\* _backup_configs and _backup_logs, which skip the file, and
\* shutil.copytree copies the rest of data_wilo and then raises shutil.Error,
\* which nothing in _backup_wilo_data or _full_backup catches.
FullBackup(fs, fetch, unreadable) ==
    LET readable == Without(fs, unreadable)
        tree == {p \in DOMAIN fs : p[1] = "data_wilo"}
        raised == tree \cap unreadable # {}
        upto_wilo == Merge(Merge(BackupDatabase(fetch), BackupConfigs(readable)),
                           BackupWiloData(readable))
        configs == {<<"config", p[2]>> : p \in ConfigFiles \cap DOMAIN readable}
    IN IF raised
       THEN [files |-> upto_wilo, raised |-> TRUE,
             contents |-> DatabaseContents(fetch) \cup configs]
       ELSE [files |-> Merge(upto_wilo, BackupLogs(readable)),
             raised |-> FALSE,
             contents |-> DatabaseContents(fetch) \cup configs
                  \cup (IF tree # {} THEN {<<"wilo_data", "data_wilo">>} ELSE {})
                  \cup (IF \E p \in DOMAIN fs : p[1] = "logs"
                        THEN {<<"logs", "logs">>} ELSE {})]

SupportedTypes == {"full", "database_only", "incremental"}

\* what create_backup leaves in temp_dir before compressing, whether the
\* capture raised, and metadata['contents']; the metadata dict is never
\* written to temp_dir
Populate(backup_type, fs, fetch, unreadable) ==
    IF backup_type \notin SupportedTypes
    THEN [files |-> NoFiles, raised |-> TRUE, contents |-> {}]
    ELSE IF backup_type = "database_only"
    THEN [files |-> BackupDatabase(fetch), raised |-> FALSE,
          contents |-> DatabaseContents(fetch)]
    ELSE FullBackup(fs, fetch, unreadable)

\* _compress_backup: the archive made of a working directory whose
\* metadata.json is in state dirmeta
CompressBackup(files, dirmeta, t) ==
    [mtime |-> t, files |-> files,
     meta |-> IF dirmeta.state # "absent" THEN dirmeta ELSE NoMeta]

\* _clean_old_backups: the archives it deletes, the oldest by st_mtime
FilesToDelete(dir, maxb) ==
    IF Cardinality(DOMAIN dir) <= maxb THEN {}
    ELSE {n \in DOMAIN dir :
            Cardinality({m \in DOMAIN dir : dir[m].mtime > dir[n].mtime}) >= maxb}

AllRows == [db_up |-> TRUE, rows |-> [t \in Tables |-> "rows"]]

AllOk == [db_up |-> TRUE, out |-> [t \in Tables |-> "ok"]]

\* the steps of create_backup at which the file system can fail
Faults == {"none", "compress", "rmtree", "rmtree_stuck"}

\* create_backup returns the archive's name, or <<>> for None
NoResult == [op |-> "none", arg |-> <<>>, kind |-> "", description |-> "",
             ret |-> <<>>, upserts |-> {}, copied |-> {}, listing |-> <<>>,
             fetch |-> AllRows, unreadable |-> {}, fault |-> "none",
             contents |-> {}, upsert |-> AllOk]

\* create_backup at clock reading t.  fault names the step at which the file
\* system fails: while the archive is written ("compress"), when the working
\* directory is removed after compression, once ("rmtree") or every time
\* ("rmtree_stuck").
CreateBackupAt(t, backup_type, description, fetch, unreadable, fault) ==
    LET backup_name == BackupName(backup_type, t, description)
        \* temp_dir.mkdir(exist_ok=True): over whatever the directory holds
        leftover == IF backup_name \in DOMAIN temp THEN temp[backup_name]
                    ELSE NoFiles
        cap == Populate(backup_type, app_fs, fetch, unreadable)
        work == Merge(leftover, cap.files)
        zip == CompressBackup(work, NoMeta, fs_time + 1)
        written == Merge(archives, [n \in {backup_name} |-> zip])
        kept == Without(written, FilesToDelete(written, max_backups))
        done(ret) == [NoResult EXCEPT !.op = "create_backup",
                         !.arg = backup_name, !.kind = backup_type,
                         !.description = description, !.ret = ret,
                         !.fetch = fetch, !.unreadable = unreadable,
                         !.fault = fault, !.contents = cap.contents]
    IN IF cap.raised
       THEN \* the except branch: rmtree(temp_dir, ignore_errors=True) and
            \* backup_file.unlink(missing_ok=True)
            /\ temp' = Without(temp, {backup_name})
            /\ archives' = Without(archives, {backup_name})
            /\ result' = done(<<>>)
            /\ UNCHANGED <<fs_time, created>>
       ELSE IF fault = "compress"
       THEN \* the archive is half written when ZipFile raises
            /\ temp' = Without(temp, {backup_name})
            /\ archives' = Without(archives, {backup_name})
            /\ fs_time' = fs_time + 1
            /\ result' = done(<<>>)
            /\ UNCHANGED created
       ELSE IF fault \in {"rmtree", "rmtree_stuck"}
       THEN \* shutil.rmtree(temp_dir) raises after the archive is complete;
            \* the second rmtree ignores its errors
            /\ temp' = IF fault = "rmtree_stuck"
                       THEN Merge(temp, [n \in {backup_name} |-> work])
                       ELSE Without(temp, {backup_name})
            /\ archives' = Without(archives, {backup_name})
            /\ fs_time' = fs_time + 1
            /\ result' = done(<<>>)
            /\ UNCHANGED created
       ELSE /\ temp' = Without(temp, {backup_name})
            /\ fs_time' = fs_time + 1
            /\ archives' = kept
            /\ IF backup_name \in DOMAIN kept
               THEN /\ created' = created + 1
                    /\ result' = done(backup_name)
               ELSE \* backup_file.stat() raises: the except branch
                    /\ created' = created
                    /\ result' = done(<<>>)

CreateBackup(backup_type, description, fetch, unreadable, fault) ==
    /\ Call
    /\ CreateBackupAt(now, backup_type, description, fetch, unreadable, fault)
    /\ UNCHANGED <<restore_temp, app_fs, max_backups, now, cacheVars,
                   otherVars>>

\* one entry of list_backups
ListEntry(dir, n) ==
    IF dir[n].meta.state = "ok"
    THEN [filename |-> n, created |-> dir[n].meta.timestamp,
          type |-> dir[n].meta.type, description |-> dir[n].meta.description]
    ELSE [filename |-> n, created |-> dir[n].mtime,
          type |-> "unknown", description |-> "Sin metadata"]

\* list_backups: the archives whose metadata is absent or readable, newest
\* first
RECURSIVE SortNewestFirst(_)
SortNewestFirst(es) ==
    IF es = {} THEN <<>>
    ELSE LET e == CHOOSE x \in es : \A y \in es : y.created <= x.created
         IN <<e>> \o SortNewestFirst(es \ {e})

Listing(dir) ==
    SortNewestFirst({ListEntry(dir, n) :
                        n \in {m \in DOMAIN dir : dir[m].meta.state # "corrupt"}})

ListBackups ==
    /\ Call
    /\ result' = [NoResult EXCEPT !.op = "list_backups",
                                  !.listing = Listing(archives)]
    /\ UNCHANGED <<archives, restore_temp, app_fs, max_backups, fs_time,
                   created, temp, now, cacheVars, otherVars>>

MetadataLoads_lenient(meta) == meta.state # "absent"

\* json.load of metadata.json
MetadataLoads(meta) == meta.state = "ok"

\* the loop of _restore_database over the dumps todo of temp_dir/database:
\* the tables bulk_upsert is called for.  A dump that does not parse raises
\* inside the loop's try and is skipped; an upsert that raises or reports
\* failure is logged and the loop goes on.
RECURSIVE RestoreTables_abort(_, _, _)
RestoreTables_abort(todo, files, upsert) ==
    IF todo = {} THEN {}
    ELSE LET t == CHOOSE x \in todo : TRUE IN
         IF files[<<"database", t>>] # "rows" THEN {}
         ELSE IF upsert.out[t] # "ok" THEN {t}
         ELSE {t} \cup RestoreTables_abort(todo \ {t}, files, upsert)

RECURSIVE RestoreTables(_, _, _)
RestoreTables(todo, files, upsert) ==
    IF todo = {} THEN {}
    ELSE LET t == CHOOSE x \in todo : TRUE
             rest == RestoreTables(todo \ {t}, files, upsert)
         IN IF files[<<"database", t>>] = "rows" THEN {t} \cup rest ELSE rest

\* _restore_database: the tables bulk_upsert is called for, and whether
\* get_database() raised before the loop
RestoreDatabase(files, upsert) ==
    LET dumps == {p[2] : p \in {q \in DOMAIN files :
                                  q[1] = "database" /\ q[2] # "schema_info"}}
    IN IF ~\E q \in DOMAIN files : q[1] = "database"
       THEN [attempted |-> {}, raised |-> FALSE]
       ELSE IF ~upsert.db_up THEN [attempted |-> {}, raised |-> TRUE]
       ELSE [attempted |-> RestoreTables(dumps, files, upsert),
             raised |-> FALSE]

\* _restore_configs: the files of temp_dir/config, copied to the working
\* directory under their names
RestoreConfigs(files) ==
    LET found == {p \in DOMAIN files : p[1] = "config"} IN
    [p \in {<<"", q[2]>> : q \in found} |-> files[<<"config", p[2]>>]]

RestoreBackup(backup_file, restore_type, upsert) ==
    LET zip == archives[backup_file]
        \* zipf.extractall(temp_dir): over whatever the directory holds
        extracted == [exists |-> TRUE,
                      files |-> Merge(restore_temp.files, zip.files),
                      meta |-> IF zip.meta.state # "absent" THEN zip.meta
                               ELSE restore_temp.meta]
        removed == [exists |-> FALSE, files |-> NoFiles, meta |-> NoMeta]
        done(ret, ups, cps) ==
            [NoResult EXCEPT !.op = "restore_backup", !.arg = backup_file,
                             !.kind = restore_type, !.ret = ret,
                             !.upserts = ups, !.copied = cps,
                             !.upsert = upsert]
    IN /\ Call
       /\ IF extracted.meta.state = "absent"
          THEN /\ restore_temp' = extracted
               /\ result' = done(FALSE, {}, {})
               /\ app_fs' = app_fs
          ELSE IF ~MetadataLoads(extracted.meta)
          THEN /\ restore_temp' = removed
               /\ result' = done(FALSE, {}, {})
               /\ app_fs' = app_fs
          ELSE LET db == IF restore_type \in {"full", "database_only"}
                         THEN RestoreDatabase(extracted.files, upsert)
                         ELSE [attempted |-> {}, raised |-> FALSE]
                   cps == IF restore_type \in {"full", "configs_only"}
                             /\ ~db.raised
                          THEN RestoreConfigs(extracted.files) ELSE NoFiles
               IN /\ restore_temp' = removed
                  /\ app_fs' = Merge(app_fs, cps)
                  /\ result' = done(~db.raised, db.attempted,
                                    {p[2] : p \in DOMAIN cps})
       /\ UNCHANGED <<archives, max_backups, fs_time, created, temp, now,
                      cacheVars, otherVars>>

(* ------------------------------ scheduler ----------------------------- *)
\* The thread of schedule_backup has its own clock sched.t, in seconds since
\* midnight of day 0; a sleep moves it forward by the time slept.
SchedDays == 2

Day(t) == t \div 86400

HourOf(t) == (t % 86400) \div 3600

MinuteOf(t) == (t % 3600) \div 60

Running == sched.pc # "off" /\ sched.t < SchedDays * 86400

\* schedule_backup(hour, backup_type): the thread starts at clock reading t0
ScheduleBackup(hour, backup_type, t0) ==
    /\ sched.pc = "off"
    /\ sched' = [pc |-> "poll", t |-> t0, started |-> t0, hour |-> hour,
                 backup_type |-> backup_type, fires |-> <<>>]
    /\ UNCHANGED <<cacheVars, backupVars, memo, conc, sched2, jobs, namespaces, now, calls>>

\* the clock when the job leaves the try block after a backup that took d
\* seconds: time.sleep(3660)
AfterBackup_nocooldown(t, d) == t + d

AfterBackup(t, d) == t + d + 3660

\* an iteration of the loop outside the scheduled minute
PollIdle ==
    /\ Running
    /\ sched.pc = "poll"
    /\ ~(HourOf(sched.t) = sched.hour /\ MinuteOf(sched.t) = 0)
    /\ sched' = [sched EXCEPT !.pc = "sleep"]
    /\ UNCHANGED <<cacheVars, backupVars, memo, conc, sched2, jobs, namespaces, now, calls>>

\* an iteration in the scheduled minute: create_backup runs for d seconds
\* and returns a path (fault "none") or None, then the job sleeps 61 minutes
Fire(fault, d) ==
    /\ Running
    /\ sched.pc = "poll"
    /\ HourOf(sched.t) = sched.hour /\ MinuteOf(sched.t) = 0
    /\ CreateBackupAt(sched.t, sched.backup_type,
                      "backup_automatico_" \o ToString(Day(sched.t)),
                      AllRows, {}, fault)
    /\ sched' = [sched EXCEPT
                   !.pc = "sleep",
                   !.t = AfterBackup(sched.t, d),
                   !.fires = Append(@, [at |-> sched.t, took |-> d,
                                        ok |-> fault = "none"])]
    /\ UNCHANGED <<cacheVars, restore_temp, app_fs, max_backups, memo, conc,
                   sched2, jobs, namespaces, now, calls>>

\* an iteration in the scheduled minute in which an exception leaves the try
\* block: the job sleeps 5 minutes
FireRaises ==
    /\ Running
    /\ sched.pc = "poll"
    /\ HourOf(sched.t) = sched.hour /\ MinuteOf(sched.t) = 0
    /\ sched' = [sched EXCEPT
                   !.pc = "sleep",
                   !.t = sched.t + 300,
                   !.fires = Append(@, [at |-> sched.t, took |-> 0,
                                        ok |-> FALSE])]
    /\ UNCHANGED <<cacheVars, backupVars, memo, conc, sched2, jobs, namespaces, now, calls>>

\* the clock after the time.sleep(30) that ends every iteration
AfterSleep_slow(t) == t + 90

AfterSleep(t) == t + 30

Sleep ==
    /\ Running
    /\ sched.pc = "sleep"
    /\ sched' = [sched EXCEPT !.pc = "poll", !.t = AfterSleep(sched.t)]
    /\ UNCHANGED <<cacheVars, backupVars, memo, conc, sched2, jobs, namespaces, now, calls>>

\* One step of an archiver whose callers draw their arguments from the sets
\* of the record dom.
BackupNext(dom) ==
    \/ \E ty \in dom.types, d \in dom.descriptions, f \in dom.fetches,
          u \in dom.unreadables, ft \in dom.faults :
          CreateBackup(ty, d, f, u, ft)
    \/ ListBackups
    \/ \E a \in DOMAIN archives, rt \in dom.restores, up \in dom.upserts :
          RestoreBackup(a, rt, up)
    \/ Tick

\* schedule_backup called again at clock reading t0, when the next iteration
\* of the first thread is due within its 30 seconds: every call starts
\* another daemon thread with a loop of its own, and nothing records that one
\* is running
ScheduleBackupAgain(hour, backup_type, t0) ==
    /\ sched.pc # "off"
    /\ sched.t >= t0 /\ sched.t <= t0 + 30
    /\ sched2.pc = "off"
    /\ sched2' = [pc |-> "poll", t |-> t0, started |-> t0, hour |-> hour,
                  backup_type |-> backup_type, fires |-> <<>>]
    /\ UNCHANGED <<cacheVars, backupVars, memo, conc, sched, jobs, namespaces,
                   now, calls>>

\* the scheduler thread i of the two
Loop(i) == IF i = 1 THEN sched ELSE sched2

\* Both threads read the one clock of the machine: thread i runs its next
\* iteration when no iteration of the other thread is due before it.
LoopDue(i) ==
    LET me == Loop(i)
        other == Loop(3 - i)
    IN /\ me.pc # "off"
       /\ me.t < SchedDays * 86400
       /\ \/ other.pc = "off"
          \/ other.t >= SchedDays * 86400
          \/ me.t <= other.t

\* an iteration of thread i outside the scheduled minute
LoopPollIdle(i) ==
    LET me == Loop(i)
        next == [me EXCEPT !.pc = "sleep"]
    IN /\ LoopDue(i)
       /\ me.pc = "poll"
       /\ ~(HourOf(me.t) = me.hour /\ MinuteOf(me.t) = 0)
       /\ sched' = IF i = 1 THEN next ELSE sched
       /\ sched2' = IF i = 2 THEN next ELSE sched2
       /\ UNCHANGED <<cacheVars, backupVars, memo, conc, jobs, namespaces,
                      now, calls>>

\* an iteration of thread i in the scheduled minute: create_backup returns a
\* path at once, then the thread sleeps 61 minutes
LoopFire(i) ==
    LET me == Loop(i)
        next == [me EXCEPT !.pc = "sleep",
                           !.t = AfterBackup(me.t, 0),
                           !.fires = Append(@, [at |-> me.t, took |-> 0,
                                                ok |-> TRUE])]
    IN /\ LoopDue(i)
       /\ me.pc = "poll"
       /\ HourOf(me.t) = me.hour /\ MinuteOf(me.t) = 0
       /\ CreateBackupAt(me.t, me.backup_type,
                         "backup_automatico_" \o ToString(Day(me.t)),
                         AllRows, {}, "none")
       /\ sched' = IF i = 1 THEN next ELSE sched
       /\ sched2' = IF i = 2 THEN next ELSE sched2
       /\ UNCHANGED <<cacheVars, restore_temp, app_fs, max_backups, memo,
                      conc, jobs, namespaces, now, calls>>

\* the time.sleep(30) that ends every iteration of thread i
LoopSleep(i) ==
    LET me == Loop(i)
        next == [me EXCEPT !.pc = "poll", !.t = AfterSleep(me.t)]
    IN /\ LoopDue(i)
       /\ me.pc = "sleep"
       /\ sched' = IF i = 1 THEN next ELSE sched
       /\ sched2' = IF i = 2 THEN next ELSE sched2
       /\ UNCHANGED <<cacheVars, backupVars, memo, conc, jobs, namespaces,
                      now, calls>>

(* --------------------- create_backup under threads -------------------- *)
\* create_backup takes no lock: a call is a sequence of steps on the backup
\* folder, and the steps of two calls interleave.  jobs[u] is the call of
\* thread u: where it stands, the names it derived and what it returned.
\* the one call of thread u begins: the clock is read and temp_dir and
\* backup_file are derived
JobStart(u, backup_type, description) ==
    /\ Call
    /\ jobs[u].pc = "idle"
    /\ jobs' = [jobs EXCEPT ![u] =
                  [pc |-> "mkdir", backup_type |-> backup_type,
                   description |-> description, t0 |-> now,
                   name |-> BackupName(backup_type, now, description),
                   ret |-> <<>>]]
    /\ UNCHANGED <<cacheVars, archives, restore_temp, app_fs, max_backups,
                   fs_time, created, result, temp, memo, conc, sched, sched2,
                   namespaces, now>>

\* temp_dir.mkdir(parents=True, exist_ok=True)
JobMkdir(u) ==
    LET n == jobs[u].name IN
    /\ jobs[u].pc = "mkdir"
    /\ temp' = IF n \in DOMAIN temp THEN temp
               ELSE Merge(temp, [m \in {n} |-> NoFiles])
    /\ jobs' = [jobs EXCEPT ![u].pc = "capture"]
    /\ UNCHANGED <<cacheVars, archives, restore_temp, app_fs, max_backups,
                   fs_time, created, result, memo, conc, sched, sched2,
                   namespaces, now, calls>>

\* the capture into temp_dir.  When temp_dir is gone, data_dir.mkdir raises
\* inside the try of _backup_database, which logs and returns, and
\* config_dir.mkdir raises out of _backup_configs.
JobCapture(u) ==
    LET n == jobs[u].name
        cap == Populate(jobs[u].backup_type, app_fs, AllRows, {})
        gone == n \notin DOMAIN temp
        raised == IF gone THEN jobs[u].backup_type # "database_only"
                  ELSE cap.raised
    IN /\ jobs[u].pc = "capture"
       /\ temp' = IF gone THEN temp
                  ELSE [temp EXCEPT ![n] = Merge(@, cap.files)]
       /\ jobs' = [jobs EXCEPT ![u].pc = IF raised THEN "except"
                                         ELSE "compress"]
       /\ UNCHANGED <<cacheVars, archives, restore_temp, app_fs, max_backups,
                      fs_time, created, result, memo, conc, sched, sched2,
                      namespaces, now, calls>>

\* _compress_backup: the archive is written over whatever has its name, from
\* the files rglob finds (none when temp_dir is gone)
JobCompress(u) ==
    LET n == jobs[u].name
        files == IF n \in DOMAIN temp THEN temp[n] ELSE NoFiles
        zip == CompressBackup(files, NoMeta, fs_time + 1)
    IN /\ jobs[u].pc = "compress"
       /\ archives' = Merge(archives, [m \in {n} |-> zip])
       /\ fs_time' = fs_time + 1
       /\ jobs' = [jobs EXCEPT ![u].pc = "rmtree"]
       /\ UNCHANGED <<cacheVars, restore_temp, app_fs, max_backups, created,
                      result, temp, memo, conc, sched, sched2, namespaces,
                      now, calls>>

\* shutil.rmtree(temp_dir): raises FileNotFoundError when the directory is
\* gone
JobRmtree(u) ==
    LET n == jobs[u].name IN
    /\ jobs[u].pc = "rmtree"
    /\ IF n \in DOMAIN temp
       THEN /\ temp' = Without(temp, {n})
            /\ jobs' = [jobs EXCEPT ![u].pc = "clean"]
       ELSE /\ temp' = temp
            /\ jobs' = [jobs EXCEPT ![u].pc = "except"]
    /\ UNCHANGED <<cacheVars, archives, restore_temp, app_fs, max_backups,
                   fs_time, created, result, memo, conc, sched, sched2,
                   namespaces, now, calls>>

\* _clean_old_backups, then backup_file.stat() for the log line and the
\* return of backup_file
JobReturn(u) ==
    LET n == jobs[u].name
        kept == Without(archives, FilesToDelete(archives, max_backups))
    IN /\ jobs[u].pc = "clean"
       /\ archives' = kept
       /\ IF n \in DOMAIN kept
          THEN /\ jobs' = [jobs EXCEPT ![u].pc = "done", ![u].ret = n]
               /\ created' = created + 1
          ELSE /\ jobs' = [jobs EXCEPT ![u].pc = "except"]
               /\ created' = created
       /\ UNCHANGED <<cacheVars, restore_temp, app_fs, max_backups, fs_time,
                      result, temp, memo, conc, sched, sched2, namespaces,
                      now, calls>>

\* the except branch: rmtree(temp_dir, ignore_errors=True) if it exists,
\* backup_file.unlink(missing_ok=True) if it exists, return None
JobExcept(u) ==
    LET n == jobs[u].name IN
    /\ jobs[u].pc = "except"
    /\ temp' = Without(temp, {n})
    /\ archives' = Without(archives, {n})
    /\ jobs' = [jobs EXCEPT ![u].pc = "done", ![u].ret = <<>>]
    /\ UNCHANGED <<cacheVars, restore_temp, app_fs, max_backups, fs_time,
                   created, result, memo, conc, sched, sched2, namespaces,
                   now, calls>>

(* ---------------------------- initial states -------------------------- *)
\* the working directory the application starts in
AppFiles ==
    [p \in {<<"", "config.json">>, <<"data_wilo", "email_config.json">>,
            <<"logs", "app.log">>} |->
        IF p[2] = "config.json" THEN "cfg1"
        ELSE IF p[2] = "email_config.json" THEN "mail1" ELSE "log1"]

NoArchives == [n \in {} |-> NoMeta]

NoDirs == [n \in {} |-> NoFiles]

\* no thread is inside create_backup
NoJobs == [u \in Users |->
             [pc |-> "idle", backup_type |-> "", description |-> "", t0 |-> 0,
              name |-> <<>>, ret |-> <<>>]]

\* schedule_backup has not been called
NoSchedule == [pc |-> "off", t |-> 0, started |-> 0, hour |-> 0,
               backup_type |-> "", fires |-> <<>>]

\* archives found in the backup directory at start: one with readable
\* metadata, one whose metadata.json does not parse, one without any
OldFull ==
    [mtime |-> 1,
     meta |-> [state |-> "ok", type |-> "full", description |-> "old",
               timestamp |-> 1],
     files |-> [p \in {<<"config", ".env">>, <<"database", "trabajadores">>,
                       <<"database", "guide_logs">>,
                       <<"database", "schema_info">>} |->
                  IF p[1] = "config" THEN "env0"
                  ELSE IF p[2] = "schema_info" THEN "schema"
                  ELSE IF p[2] = "guide_logs" THEN "garbled" ELSE "rows"]]

OldCorrupt ==
    [mtime |-> 2,
     meta |-> [state |-> "corrupt", type |-> "", description |-> "",
               timestamp |-> 0],
     files |-> [p \in {<<"config", "config.json">>,
                       <<"database", "daily_kpis">>} |->
                  IF p[1] = "config" THEN "cfg8" ELSE "rows"]]

OldBare ==
    [mtime |-> 3, meta |-> NoMeta,
     files |-> [p \in {<<"config", "gemini_config.json">>,
                       <<"database", "guide_stores">>} |->
                  IF p[1] = "config" THEN "gem9" ELSE "rows"]]

OldArchives ==
    [n \in {<<"full", -3, "old">>, <<"full", -2, "">>, <<"full", -1, "">>} |->
        IF n[2] = -3 THEN OldFull ELSE IF n[2] = -2 THEN OldCorrupt ELSE OldBare]

DefaultMaxBackups == 10

BackupInit(dir, maxbs) ==
    /\ archives = dir
    /\ restore_temp = [exists |-> FALSE, files |-> NoFiles, meta |-> NoMeta]
    /\ app_fs = AppFiles
    /\ max_backups \in maxbs
    /\ fs_time = 3
    /\ created = 0
    /\ result = NoResult
    /\ temp = NoDirs
    /\ sched2 = NoSchedule
    /\ jobs = NoJobs
    /\ sched = NoSchedule

(* ----------------------------- specifications ------------------------- *)
\* Expiry: two keys, every value and ttl, no tags.
TtlDom == [keys |-> {"a", "b"}, values |-> Values, ttls |-> TTLs,
           taglists |-> {<<>>}, defaults |-> Defaults, tags |-> {"t1"},
           patterns |-> {"a"}]
TtlNext == CacheNext(TtlDom)
TtlInit == CacheInit({1}) /\ BackupInit(NoArchives, {DefaultMaxBackups})
TtlSpec == TtlInit /\ [][TtlNext]_vars

\* Capacity: three keys, one value, one ttl, no tags.
LruDom == [keys |-> Keys, values |-> {"v1"}, ttls |-> {1},
           taglists |-> {<<>>}, defaults |-> {None}, tags |-> {"t1"},
           patterns |-> {"[ab]"}]
LruNext == CacheNext(LruDom)
LruInit == CacheInit(MaxSizes) /\ BackupInit(NoArchives, {DefaultMaxBackups})
LruSpec == LruInit /\ [][LruNext]_vars

\* Tags: two keys, one value, one ttl, every tag list.
TagDom == [keys |-> {"a", "b"}, values |-> {"v1"}, ttls |-> {1},
           taglists |-> TagLists, defaults |-> {None}, tags |-> Tags,
           patterns |-> {"[ab]"}]
TagNext == CacheNext(TagDom)
TagInit == CacheInit({3}) /\ BackupInit(NoArchives, {DefaultMaxBackups})
TagSpec == TagInit /\ [][TagNext]_vars

SomeRows ==
    [db_up |-> TRUE,
     rows |-> [t \in Tables |-> IF t = "guide_logs" THEN "error"
                                ELSE IF t = "guide_senders" THEN "empty"
                                ELSE "rows"]]
DbDown == [db_up |-> FALSE, rows |-> [t \in Tables |-> "error"]]

\* Creation and retention: an empty backup directory, small maxima.
CreateDom == [types |-> {"full", "database_only", "zip"},
              descriptions |-> {"", "pre deploy"},
              fetches |-> {SomeRows},
              restores |-> {"full"}, unreadables |-> {{}},
              faults |-> {"none"}, upserts |-> {AllOk}]
CreateNext == BackupNext(CreateDom)
CreateInit == CacheInit({1}) /\ BackupInit(NoArchives, {3})
CreateSpec == CreateInit /\ [][CreateNext]_vars

\* Restoration: a backup directory that holds archives, every restore type.
RestoreDom == [types |-> {"full"}, descriptions |-> {""},
               fetches |-> {AllRows},
               restores |-> {"full", "database_only", "configs_only"},
               unreadables |-> {{}}, faults |-> {"none"},
               upserts |-> {AllOk}]
RestoreNext == BackupNext(RestoreDom)
RestoreInit == CacheInit({1}) /\ BackupInit(OldArchives, {DefaultMaxBackups})
RestoreSpec == RestoreInit /\ [][RestoreNext]_vars


\* Threads: two keys, entries that expire at once, with and without a tag.
ConcOps ==
    {[name |-> "get", key |-> "a", ttl |-> 0, tags |-> <<>>],
     [name |-> "invalidate", key |-> "b", ttl |-> 0, tags |-> <<>>],
     [name |-> "set", key |-> "a", ttl |-> 0, tags |-> <<"t1">>],
     [name |-> "set", key |-> "b", ttl |-> 0, tags |-> <<>>],
     [name |-> "invalidate_by_tag", key |-> "t1", ttl |-> 0, tags |-> <<>>],
     [name |-> "invalidate_by_pattern", key |-> "[ab]", ttl |-> 0,
      tags |-> <<>>],
     [name |-> "sweep", key |-> None, ttl |-> 0, tags |-> <<>>],
     [name |-> "clear", key |-> None, ttl |-> 0, tags |-> <<>>],
     [name |-> "get_stats", key |-> None, ttl |-> 0, tags |-> <<>>]}
ConcNext1 == ConcNext(ConcOps)
ConcInit == CacheInit({2}) /\ BackupInit(NoArchives, {DefaultMaxBackups})
ConcSpec == ConcInit /\ [][ConcNext1]_vars

NamespaceMaxSize == 500

\* Memoization: one wrapped function with ttl 1 and one tag, two arguments,
\* every result including None; the namespace is swept and cleared.
MemoNext ==
    \/ \E x \in {1, 2}, v \in Values \cup {None} :
          Memoize(1, <<"t1">>, "kpis", x, v)
    \/ CleanupExpired
    \/ Clear
    \/ Tick
MemoInit == CacheInit({NamespaceMaxSize})
               /\ BackupInit(NoArchives, {DefaultMaxBackups})
MemoSpec == MemoInit /\ [][MemoNext]_vars

\* Scheduling: the default hour and midnight, threads started at midnight,
\* inside the scheduled minute of 02:00 and just after it, backups that take
\* no time or ten minutes.
SchedNext ==
    \/ \E h \in {0, 2}, t0 \in {0, 7215, 7261} :
          ScheduleBackup(h, "incremental", t0)
    \/ PollIdle
    \/ \E ft \in {"none", "compress"}, d \in {0, 600} : Fire(ft, d)
    \/ FireRaises
    \/ Sleep
SchedInit == CacheInit({1}) /\ BackupInit(NoArchives, {DefaultMaxBackups})
SchedSpec == SchedInit /\ [][SchedNext]_vars

\* Failure of create_backup: every fault, files that cannot be copied, an
\* unsupported type.
FailDom == [types |-> {"full", "zip"}, descriptions |-> {""},
            fetches |-> {AllRows},
            restores |-> {"full"},
            unreadables |-> {{}, {<<"data_wilo", "email_config.json">>},
                             {<<"logs", "app.log">>, <<"", "config.json">>}},
            faults |-> Faults, upserts |-> {AllOk}]
FailNext == BackupNext(FailDom)
FailInit == CacheInit({1}) /\ BackupInit(NoArchives, {3})
FailSpec == FailInit /\ [][FailNext]_vars

\* the database answers, and the fetch of the tables of failed raises
FetchFailing(failed) ==
    [db_up |-> TRUE,
     rows |-> [t \in Tables |-> IF t \in failed THEN "error" ELSE "rows"]]

\* Table fetches: every subset of two of the tables fails, a table is
\* empty, the database does not answer.
FetchDom == [types |-> {"database_only"}, descriptions |-> {""},
             fetches |-> {FetchFailing(F) :
                            F \in SUBSET {"daily_kpis", "guide_logs"}}
                         \cup {SomeRows, DbDown},
             restores |-> {"full"}, unreadables |-> {{}},
             faults |-> {"none"}, upserts |-> {AllOk}]
FetchNext == BackupNext(FetchDom)
FetchInit == CacheInit({1}) /\ BackupInit(NoArchives, {3})
FetchSpec == FetchInit /\ [][FetchNext]_vars

\* an archive with readable metadata, three dumps that parse and one that
\* does not
OldWide ==
    [mtime |-> 1,
     meta |-> [state |-> "ok", type |-> "full", description |-> "wide",
               timestamp |-> 1],
     files |-> [p \in {<<"config", "config.json">>, <<"config", ".env">>,
                       <<"database", "daily_kpis">>,
                       <<"database", "trabajadores">>,
                       <<"database", "guide_stores">>,
                       <<"database", "guide_logs">>,
                       <<"database", "schema_info">>} |->
                  IF p[1] = "config" THEN "cfg7"
                  ELSE IF p[2] = "schema_info" THEN "schema"
                  ELSE IF p[2] = "guide_logs" THEN "garbled" ELSE "rows"]]

WideArchives ==
    [n \in {<<"full", -3, "wide">>, <<"full", -1, "">>} |->
        IF n[2] = -3 THEN OldWide ELSE OldBare]

\* bulk_upsert raises for one table and reports failure for another
Flaky ==
    [db_up |-> TRUE,
     out |-> [t \in Tables |-> IF t = "trabajadores" THEN "raise"
                               ELSE IF t = "guide_stores" THEN "false"
                               ELSE "ok"]]

\* get_database() raises
DbGone == [db_up |-> FALSE, out |-> [t \in Tables |-> "raise"]]

\* Restoration with failing upserts.
UpsertDom == [types |-> {"full"}, descriptions |-> {""},
              fetches |-> {AllRows},
              restores |-> {"full", "database_only", "configs_only"},
              unreadables |-> {{}}, faults |-> {"none"},
              upserts |-> {AllOk, Flaky, DbGone}]
UpsertNext == BackupNext(UpsertDom)
UpsertInit == CacheInit({1}) /\ BackupInit(WideArchives, {DefaultMaxBackups})
UpsertSpec == UpsertInit /\ [][UpsertNext]_vars


\* Every operation on two keys at capacity 1 and 2; a set writes one of two
\* entries that differ in value, ttl and tag list.
FrameNext ==
    \/ \E k \in {"a", "b"} : Set(k, "v1", 0, <<>>)
    \/ \E k \in {"a", "b"} : Set(k, "v2", 1, <<"t2", "t1", "t2">>)
    \/ \E k \in {"a", "b"} : Get(k, None)
    \/ CleanupExpired
    \/ \E k \in {"a", "b"} : Invalidate(k)
    \/ InvalidateByTag("t1")
    \/ InvalidateByPattern("a")
    \/ Clear
    \/ Tick
FrameSpec == LruInit /\ [][FrameNext]_vars

\* The wrapper of the function kpis and the invalidation of its entries
FuncNext ==
    \/ \E x \in {1, 2}, v \in Values : Memoize(1, <<"t1">>, "kpis", x, v)
    \/ InvalidateFunctionCache("kpis")
    \/ \E k \in {"a"}, v \in Values : Set(k, v, 1, <<>>)
    \/ Tick
FuncSpec == MemoInit /\ [][FuncNext]_vars

\* Two threads that call create_backup("database_only", ...) with one of two
\* descriptions
RaceNext ==
    \/ \E u \in Users, d \in {"", "same"} : JobStart(u, "database_only", d)
    \/ \E u \in Users : JobMkdir(u)
    \/ \E u \in Users : JobCapture(u)
    \/ \E u \in Users : JobCompress(u)
    \/ \E u \in Users : JobRmtree(u)
    \/ \E u \in Users : JobReturn(u)
    \/ \E u \in Users : JobExcept(u)
    \/ Tick
RaceSpec == SchedInit /\ [][RaceNext]_vars

\* Two threads that ask the manager for one of two namespaces
NsNext ==
    \/ \E u \in Users, n \in {"default", "kpis"} : NsTest(u, n)
    \/ \E u \in Users : NsCreate(u)
    \/ \E u \in Users : NsReturn(u)
    \/ Tick
NsSpec == MemoInit /\ [][NsNext]_vars

\* schedule_backup at start-up and again from the administration page, for
\* the same hour or another one
TwiceNext ==
    \/ \E t0 \in {0, 7215} : ScheduleBackup(2, "incremental", t0)
    \/ \E h \in {2, 3}, t0 \in {0, 7170, 7215} :
          ScheduleBackupAgain(h, "full", t0)
    \/ \E i \in {1, 2} : LoopPollIdle(i)
    \/ \E i \in {1, 2} : LoopFire(i)
    \/ \E i \in {1, 2} : LoopSleep(i)
TwiceSpec == SchedInit /\ [][TwiceNext]_vars

\* The cache with its cleanup thread: the thread is scheduled again and
\* again for as long as the process lives (weak fairness of its round).
SweepNext ==
    \/ \E k \in {"a", "b"}, ttl \in TTLs : Set(k, "v1", ttl, <<>>)
    \/ \E k \in {"a", "b"} : Get(k, None)
    \/ CleanupLoop
    \/ Tick
SweepSpec == ConcInit /\ [][SweepNext]_vars /\ WF_vars(CleanupLoop)

(* -------------------------------- claims ------------------------------ *)
IsCall == calls' = calls + 1

Within(e, t) == t - e.created_at <= e.ttl

\* C1: a get of a stored key returns the stored value while the entry's age
\* is within its ttl, and returns the caller's default, never the value, and
\* removes the entry once the ttl has elapsed; a get of a key that is not
\* stored returns the default; set stores the value, the ttl and the time of
\* the call; reads, sweeps and the passing of time leave every entry that is
\* within its ttl stored as it was written.
C1_GetHonoursTtl ==
    [][/\ (IsCall /\ last'.op = "get") =>
            \A k \in {last'.arg}, d \in Defaults :
               Get(k, d) =>
                  IF k \in KeysOf(cache)
                  THEN LET e == Lookup(cache, k) IN
                       IF Within(e, now)
                       THEN last'.ret = e.value
                       ELSE /\ last'.ret = d
                            /\ last'.ret # e.value
                            /\ k \notin KeysOf(cache')
                  ELSE last'.ret = d /\ k \notin KeysOf(cache')
       /\ (IsCall /\ last'.op = "set") =>
            \A k \in {last'.arg}, v \in Values, ttl \in TTLs :
               (\E tg \in TagLists : Set(k, v, ttl, tg)) =>
                  /\ k \in KeysOf(cache')
                  /\ Lookup(cache', k).value = v
                  /\ Lookup(cache', k).ttl = ttl
                  /\ Lookup(cache', k).created_at = now
       /\ (~IsCall \/ last'.op \in {"get", "sweep", "get_stats"}) =>
            \A i \in DOMAIN cache :
               Within(cache[i], now) =>
                  /\ cache[i].key \in KeysOf(cache')
                  /\ Lookup(cache', cache[i].key).value = cache[i].value
                  /\ Lookup(cache', cache[i].key).ttl = cache[i].ttl
                  /\ Lookup(cache', cache[i].key).created_at
                        = cache[i].created_at
      ]_vars

\* a get, the second call after a set, found its entry expired, returned the
\* default and removed the entry
C1_Witness ==
    /\ last.op = "get"
    /\ last.ret = "dflt"
    /\ calls = 2
    /\ stats.expirations = 1
    /\ stats.misses = 1
    /\ last.arg \notin KeysOf(cache)

\* C2: the number of stored entries never exceeds max_size.
C2_SizeWithinMax == Len(cache) <= max_size

\* C3: a set of a key that is not stored, on a cache that holds max_size
\* entries, removes exactly one entry, one whose last_accessed is the
\* oldest, inserts the key and adds 1 to the evictions counter.
C3_EvictsOldest ==
    [][\A k \in Keys, v \in Values, ttl \in TTLs, tg \in TagLists :
          (k \notin KeysOf(cache) /\ Len(cache) = max_size
                                  /\ Set(k, v, ttl, tg)) =>
             /\ \E i \in DOMAIN cache :
                   /\ \A j \in DOMAIN cache :
                         cache[i].last_accessed <= cache[j].last_accessed
                   /\ KeysOf(cache') = (KeysOf(cache) \ {cache[i].key}) \cup {k}
             /\ stats'.evictions = stats.evictions + 1
      ]_vars

Tagged(e, t) == \E j \in DOMAIN e.tags : e.tags[j] = t

\* C4: invalidate_by_tag(t) removes exactly the entries whose tags contain t,
\* leaves every other entry and the hit, miss, eviction and expiration
\* counters as they were, and returns the number of entries removed.
C4_InvalidateByTagExact ==
    [][\A t \in Tags :
          InvalidateByTag(t) =>
             /\ cache' = SelectSeq(cache, LAMBDA e : ~Tagged(e, t))
             /\ last'.ret =
                   Cardinality({i \in DOMAIN cache : Tagged(cache[i], t)})
             /\ stats'.hits = stats.hits
             /\ stats'.misses = stats.misses
             /\ stats'.evictions = stats.evictions
             /\ stats'.expirations = stats.expirations
      ]_vars

\* an invalidate_by_tag removed one entry and left another, tagged otherwise
C4_Witness ==
    /\ last.op = "invalidate_by_tag"
    /\ last.ret = 1
    /\ Len(cache) = 1
    /\ cache[1].tags # <<>>

\* C5 (as stated): the hit rate get_stats reports is exactly
\* hits/(hits+misses)*100, and 0 when no get has occurred.
C5_ExactRate ==
    last.op = "get_stats" =>
       LET total == last.ret.hits + last.ret.misses IN
       IF total = 0 THEN last.ret.hit_rate = 0
       ELSE last.ret.hit_rate * total = 1000 * last.ret.hits

\* C5 (amended): hits counts the gets that returned a stored value and misses
\* the gets that returned the default, no other call changes either, and the
\* hit rate get_stats reports is hits/(hits+misses)*100 rounded to one
\* decimal place, 0.0 when no get has occurred.
C5_CountersAndRate ==
    [][/\ (IsCall /\ last'.op = "get") =>
            IF last'.ret \in Values
            THEN stats'.hits = stats.hits + 1 /\ stats'.misses = stats.misses
            ELSE stats'.misses = stats.misses + 1 /\ stats'.hits = stats.hits
       /\ ~(IsCall /\ last'.op = "get") =>
            stats'.hits = stats.hits /\ stats'.misses = stats.misses
       /\ (IsCall /\ last'.op = "get_stats") =>
            LET total == stats.hits + stats.misses
                rate == last'.ret.hit_rate
                off == 1000 * stats.hits - rate * total
            IN IF total = 0 THEN rate = 0
               ELSE 2 * off <= total /\ -2 * off <= total
      ]_vars

\* get_stats after two hits and one miss
C5_Witness ==
    /\ last.op = "get_stats"
    /\ last.ret.hits = 2
    /\ last.ret.misses = 1
    /\ last.ret.hit_rate = 667

\* C6: every archive create_backup leaves in the backup directory holds a
\* metadata.json.
C6_ArchivesHaveMetadata ==
    \A n \in DOMAIN archives : archives[n].meta.state = "ok"

\* C7: after a successful create_backup("database_only", d) the archive holds
\* the dumps of the captured tables and a metadata.json with that type and
\* description, and list_backups lists the archive with that type and
\* description.
C7_DatabaseOnlyListed ==
    (result.op = "create_backup" /\ result.kind = "database_only"
                                 /\ result.ret # <<>>) =>
       LET zip == archives[result.ret] IN
       /\ \A p \in DOMAIN zip.files : p[1] = "database"
       /\ zip.meta.state = "ok"
       /\ zip.meta.type = "database_only"
       /\ zip.meta.description = result.description
       /\ \E i \in DOMAIN Listing(archives) :
             /\ Listing(archives)[i].filename = result.ret
             /\ Listing(archives)[i].type = "database_only"
             /\ Listing(archives)[i].description = result.description

\* C8: after a successful create_backup at most max_backups archives remain,
\* the archives retention deleted are older than every archive left, and with
\* max_backups = 3 the fourth backup leaves exactly 3 archives.
C8_Retention ==
    [][\A ty \in SupportedTypes, d \in {"", "pre deploy"},
          f \in {AllRows, SomeRows, DbDown} :
          (CreateBackup(ty, d, f, {}, "none") /\ result'.ret # <<>>) =>
             /\ Cardinality(DOMAIN archives') <= max_backups
             /\ \A x \in (DOMAIN archives) \ (DOMAIN archives'),
                   y \in DOMAIN archives' :
                   archives[x].mtime < archives'[y].mtime
             /\ (max_backups = 3 /\ created' = 4) =>
                   Cardinality(DOMAIN archives') = 3
      ]_vars

ConfigMembers(zip) == {p[2] : p \in {q \in DOMAIN zip.files : q[1] = "config"}}

\* C9: restore_backup(archive, "configs_only") calls no upsert and copies only
\* files of the archive's config/ folder.
C9_ConfigsOnlyScope ==
    (result.op = "restore_backup" /\ result.kind = "configs_only") =>
       /\ result.upserts = {}
       /\ result.copied \subseteq ConfigMembers(archives[result.arg])

\* C10: restore_backup of an archive whose metadata.json is missing or does
\* not parse returns False, calls no upsert and copies no file, whatever the
\* restore type.
C10_NoMetadataNoRestore ==
    (result.op = "restore_backup"
        /\ archives[result.arg].meta.state # "ok") =>
       /\ result.ret = FALSE
       /\ result.upserts = {}
       /\ result.copied = {}

\* a full restore of an archive without metadata.json returned False while
\* restore_temp held files of an earlier attempt on another archive
C10_Witness ==
    /\ result.op = "restore_backup"
    /\ result.kind = "full"
    /\ archives[result.arg].meta.state = "absent"
    /\ result.ret = FALSE
    /\ \E p \in DOMAIN restore_temp.files :
          p \notin DOMAIN archives[result.arg].files

\* C11: when restore_backup has returned, whatever it returned, the directory
\* restore_temp does not exist.
C11_RestoreTempRemoved ==
    result.op = "restore_backup" => ~restore_temp.exists

\* C12: a create_backup that fails returns None, leaves neither its working
\* directory nor a file of its archive's name, and leaves every archive that
\* was in the backup directory before the call as it was.
C12_FailureLeavesNothing ==
    [][(IsCall /\ result'.op = "create_backup" /\ result'.ret = <<>>) =>
          /\ result'.arg \notin DOMAIN temp'
          /\ result'.arg \notin DOMAIN archives'
          /\ \A n \in DOMAIN archives :
                n \in DOMAIN archives' /\ archives'[n] = archives[n]
      ]_vars

\* what operation op with argument key makes of cache d and statistics st at
\* time t when nothing else runs
Alone(op, key, d, st, t) ==
    LET gone(e) == CASE op = "sweep" -> is_expired(e, t)
                     [] op = "invalidate_by_tag" -> has_tag(e, key)
                     [] op = "invalidate_by_pattern" -> fnmatch(e.key, key)
        d2 == SelectSeq(d, LAMBDA e : ~gone(e))
        n == Len(d) - Len(d2)
    IN [cache |-> d2,
        stats |-> IF op = "sweep"
                  THEN IF n = 0 THEN st
                       ELSE [st EXCEPT !.expirations = @ + n, !.size = Len(d2)]
                  ELSE [st EXCEPT !.size = Len(d2)]]

\* C13: at most one thread is inside an operation of the cache at a time, so
\* no operation begins, and none observes the cache, between two deletions of
\* a scan or a sweep; and when a scan or a sweep ends, the cache and the
\* statistics are what the whole operation makes of the state in which it
\* began, so the threads' operations take effect one after another in the
\* order in which they took the lock.
C13_OperationsAtomic ==
    [][/\ \A t \in Threads :
             conc'.thr[t].pc # "idle" =>
                /\ conc'.lock = t
                /\ \A u \in Threads \ {t} : conc'.thr[u].pc = "idle"
       /\ \A t \in Threads :
             (End(t) /\ conc.thr[t].op \in ScanOps) =>
                LET me == conc.thr[t]
                    seq == Alone(me.op, me.key, me.snap, me.snap_stats, me.t0)
                IN /\ me.ret # "KeyError"
                   /\ cache' = seq.cache
                   /\ stats' = seq.stats
      ]_vars

\* an invalidate_by_pattern has deleted one of its two keys and not yet the
\* other, other operations have completed before it, and the other threads
\* are outside the cache
C13_Witness ==
    \E t \in Threads :
       /\ conc.lock = t
       /\ conc.thr[t].pc = "scan"
       /\ conc.thr[t].op = "invalidate_by_pattern"
       /\ conc.thr[t].deleted = 1
       /\ Len(conc.thr[t].todo) = 1
       /\ Len(cache) = 1
       /\ last.op = "set"

\* C14: a call of a memoized function whose key has a live entry returns the
\* stored value and does not invoke the function, whatever the stored value
\* is; a call whose key has none invokes the function once, stores the
\* result under the key with the wrapper's ttl and tags, and returns it.
C14_MemoizeInvokesOnce ==
    [][(IsCall /\ last'.op = "memoize") =>
          LET k == last'.arg IN
          IF k \in KeysOf(cache) /\ Within(Lookup(cache, k), now)
          THEN /\ memo'.invoked = 0
               /\ memo'.ret = Lookup(cache, k).value
          ELSE /\ memo'.invoked = 1
               /\ memo'.ret = memo'.computed
               /\ k \in KeysOf(cache')
               /\ Lookup(cache', k).value = memo'.computed
               /\ Lookup(cache', k).ttl = 1
               /\ Lookup(cache', k).tags = <<"t1">>
      ]_vars

\* the clock at hour:00:00 of day d
WindowStart(d) == d * 86400 + sched.hour * 3600

\* C15: the scheduler never calls create_backup twice in one occurrence of
\* the scheduled hour: the attempts it has made are on different days,
\* whatever the backup took and however it ended.
C15_NoDoubleFire ==
    \A i \in DOMAIN sched.fires, j \in DOMAIN sched.fires :
       i < j => Day(sched.fires[i].at) < Day(sched.fires[j].at)

\* the scheduler has fired on two days, the first backup having taken ten
\* minutes
C15_Witness ==
    /\ Len(sched.fires) = 2
    /\ sched.pc = "sleep"
    /\ sched.fires[1].took = 600
    /\ Day(sched.fires[2].at) = Day(sched.fires[1].at) + 1
    /\ sched.t >= sched.fires[2].at + 3660

\* C16: for every day on which the thread was running at hour:00:00, once
\* its clock has passed hour:01:00 of that day it has called create_backup
\* in the first minute of that hour of that day.
C16_FiresEveryDay ==
    sched.pc # "off" =>
       \A d \in 0..SchedDays :
          (sched.started <= WindowStart(d)
              /\ sched.t >= WindowStart(d) + 60) =>
             \E i \in DOMAIN sched.fires :
                /\ sched.fires[i].at >= WindowStart(d)
                /\ sched.fires[i].at < WindowStart(d) + 60

\* the thread has run through two scheduled hours and fired in both, the
\* first attempt having failed
C16_Witness ==
    /\ sched.pc = "poll"
    /\ sched.t >= WindowStart(1) + 3600
    /\ Len(sched.fires) = 2
    /\ ~sched.fires[1].ok
    /\ sched.fires[2].at >= WindowStart(1)

\* C17: an attempt that failed is followed, before the scheduled hour of the
\* next day, by another call of create_backup.
C17_FailedAttemptRetried ==
    \A i \in DOMAIN sched.fires :
       (~sched.fires[i].ok
           /\ sched.t >= WindowStart(Day(sched.fires[i].at) + 1)) =>
          \E j \in DOMAIN sched.fires :
             /\ j > i
             /\ sched.fires[j].at < WindowStart(Day(sched.fires[i].at) + 1)

\* C18: whichever tables' fetches fail, create_backup returns an archive that
\* holds the dump of every table that returned rows, the tables missing from
\* the archive are exactly the failed ones, and the archive's metadata lists
\* exactly the tables that did not fail.
C18_FailedTablesOnlyMissing ==
    (result.op = "create_backup" /\ result.kind \in SupportedTypes) =>
       LET failed == {t \in Tables : result.fetch.rows[t] = "error"} IN
       /\ result.ret # <<>>
       /\ LET zip == archives[result.ret] IN
          /\ \A t \in Tables :
                result.fetch.rows[t] = "rows" =>
                   <<"database", t>> \in DOMAIN zip.files
          /\ {t \in Tables : <<"database", t>> \notin DOMAIN zip.files}
                = failed
          /\ zip.meta.state = "ok"
          /\ {t \in Tables : <<"database", t>> \notin result.contents}
                = failed

\* the place a file of the working directory takes in a full backup
ArchivedAs(p) ==
    (IF p \in ConfigFiles THEN {<<"config", p[2]>>} ELSE {})
    \cup (IF p[1] = "data_wilo" THEN {<<"wilo_data", p[2]>>} ELSE {})
    \cup (IF p[1] = "logs" THEN {p} ELSE {})

\* C19: a full backup during which some files cannot be copied still returns
\* an archive, and the archive holds every file that could be copied.
C19_CopyFailureNonFatal ==
    (result.op = "create_backup" /\ result.kind = "full"
                                 /\ result.fault = "none") =>
       /\ result.ret # <<>>
       /\ \A p \in (DOMAIN app_fs) \ result.unreadable :
             \A q \in ArchivedAs(p) :
                /\ q \in DOMAIN archives[result.ret].files
                /\ archives[result.ret].files[q] = app_fs[p]

\* the tables whose dump in the archive parses
ReadableDumps(zip) ==
    {p[2] : p \in {q \in DOMAIN zip.files :
                     /\ q[1] = "database"
                     /\ q[2] # "schema_info"
                     /\ zip.files[q] = "rows"}}

\* C20: in a restore that reaches the database, bulk_upsert is called for
\* every table whose dump in the archive parses, whichever dumps do not parse
\* and whichever upserts raise or report failure; a full restore then copies
\* every file of the archive's config/ folder and returns True.
C20_TableFailureDoesNotAbort ==
    (/\ result.op = "restore_backup"
     /\ result.kind \in {"full", "database_only"}
     /\ archives[result.arg].meta.state = "ok"
     /\ result.upsert.db_up) =>
       /\ ReadableDumps(archives[result.arg]) \subseteq result.upserts
       /\ result.ret = TRUE
       /\ result.kind = "full" =>
             ConfigMembers(archives[result.arg]) \subseteq result.copied

\* a full restore in which one dump did not parse, one upsert raised and one
\* reported failure, and the configuration files were copied
C20_Witness ==
    /\ result.op = "restore_backup"
    /\ result.kind = "full"
    /\ result.upsert = Flaky
    /\ \E p \in DOMAIN archives[result.arg].files :
          p[1] = "database" /\ archives[result.arg].files[p] = "garbled"
    /\ {"trabajadores", "guide_stores", "daily_kpis"} \subseteq result.upserts
    /\ result.copied # {}
    /\ result.ret = TRUE

\* C21: list_backups returns exactly one entry for every archive of the
\* backup folder; an archive with readable metadata carries the metadata's
\* type, description and timestamp, any other archive is listed with type
\* "unknown" and the file's modification time; the list is ordered newest
\* first.
C21_EveryArchiveListed ==
    result.op = "list_backups" =>
        LET l == result.listing
        IN /\ Len(l) = Cardinality(DOMAIN archives)
           /\ {l[i].filename : i \in DOMAIN l} = DOMAIN archives
           /\ \A i \in DOMAIN l :
                 LET a == archives[l[i].filename]
                 IN IF a.meta.state = "ok"
                    THEN /\ l[i].type = a.meta.type
                         /\ l[i].description = a.meta.description
                         /\ l[i].created = a.meta.timestamp
                    ELSE /\ l[i].type = "unknown"
                         /\ l[i].created = a.mtime
           /\ \A i \in DOMAIN l : \A j \in DOMAIN l :
                 i < j => l[i].created >= l[j].created

Expired(k) == k \in KeysOf(cache) /\ is_expired(Lookup(cache, k), now)

\* the expired entries a step removes from the cache
RemovedExpired ==
    {k \in KeysOf(cache) \ KeysOf(cache') : is_expired(Lookup(cache, k), now)}

\* C22: an entry whose age exceeds its ttl is eventually removed, by the
\* cleanup thread if no get touches it; every entry a get or a sweep removes
\* for expiry adds exactly 1 to stats.expirations, and a set adds nothing.
C22_ExpiredEventuallySwept ==
    /\ \A k \in Keys : Expired(k) ~> ~Expired(k)
    /\ [][/\ last'.op \in {"get", "sweep"} =>
               stats'.expirations =
                   stats.expirations + Cardinality(RemovedExpired)
          /\ last'.op = "set" /\ last' # last =>
               stats'.expirations = stats.expirations]_vars

\* two entries were swept and no get was ever made
C22_Witness ==
    /\ last.op = "sweep"
    /\ stats.expirations = 2
    /\ stats.hits + stats.misses = 0
    /\ cache = <<>>

\* C23: set on a key that is stored replaces the entry in place: the new
\* entry has the call's value, ttl and tags, is created now and has never
\* been read; every other entry is what it was, nothing is evicted and the
\* number of entries is the same, also when the cache is full.
C23_SetReplacesInPlace ==
    [][last'.op = "set" =>
         \A k \in {"a", "b"},
            w \in {[value |-> "v1", ttl |-> 0, tags |-> <<>>],
                   [value |-> "v2", ttl |-> 1, tags |-> <<"t2", "t1", "t2">>]} :
            Set(k, w.value, w.ttl, w.tags) /\ k \in KeysOf(cache) =>
                LET e == Lookup(cache', k)
                IN /\ e.value = w.value /\ e.ttl = w.ttl
                   /\ Range(e.tags) = Range(w.tags)
                   /\ e.created_at = now /\ e.last_accessed = now
                   /\ e.access_count = 0
                   /\ Len(cache') = Len(cache)
                   /\ \A i \in DOMAIN cache :
                         /\ cache'[i].key = cache[i].key
                         /\ cache[i].key # k => cache'[i] = cache[i]
                   /\ stats'.evictions = stats.evictions
                   /\ stats'.size = Len(cache)]_vars

\* a full cache of two entries whose first entry is the younger one: it was
\* replaced where it stood, and nothing was ever evicted
C23_Witness ==
    /\ last.op = "set"
    /\ max_size = 2
    /\ Len(cache) = 2
    /\ cache[1].key = last.arg
    /\ cache[1].created_at > cache[2].created_at
    /\ cache[1].tags = <<"t2", "t1">>
    /\ stats.evictions = 0

\* C24: clear() removes every entry and sets stats.size to 0; the counters
\* hits, misses, evictions and expirations are what they were.
C24_ClearKeepsCounters ==
    [][Clear =>
         /\ cache' = <<>>
         /\ stats'.size = 0
         /\ stats'.hits = stats.hits
         /\ stats'.misses = stats.misses
         /\ stats'.evictions = stats.evictions
         /\ stats'.expirations = stats.expirations]_vars

\* two sets (the second evicting), a hit and a miss, then clear: the entry
\* the hit read was still stored when clear was called
C24_Witness ==
    /\ last.op = "clear"
    /\ calls = 5
    /\ cache = <<>>
    /\ stats = [hits |-> 1, misses |-> 1, evictions |-> 1, expirations |-> 0,
                size |-> 0]

\* C30: between operations stats.size is the number of entries stored,
\* whatever sequence of set, get, eviction, sweep, invalidate,
\* invalidate_by_tag, invalidate_by_pattern and clear has run.
C30_SizeIsEntryCount == stats.size = Len(cache)

\* an eviction, an expiry and then an invalidation that removed an entry
\* have happened
C30_Witness ==
    /\ last.op = "invalidate"
    /\ last.ret = TRUE
    /\ stats.evictions = 1
    /\ stats.expirations = 1
    /\ stats.size = 0

\* C25: after invalidate_function_cache("kpis", namespace) the namespace
\* holds no entry the wrapper stored for kpis, and the value returned is the
\* number of entries removed.
C25_FunctionEntriesRemoved ==
    [][InvalidateFunctionCache("kpis") =>
         /\ \A x \in {1, 2} :
               generate_function_key("kpis", x) \notin KeysOf(cache')
         /\ last'.ret = Len(cache) - Len(cache')]_vars

\* C26: two create_backup calls with the same type and description that read
\* the same clock second derive the same working directory and archive path,
\* and a call that has returned the path of an archive which is not there
\* (or of which another call holds the only copy) shared its name with
\* another call: the loss comes from the collision of the names.
C26_SameSecondSameNames ==
    /\ \A u \in Users, w \in Users :
          /\ jobs[u].pc # "idle" /\ jobs[w].pc # "idle"
          /\ jobs[u].backup_type = jobs[w].backup_type
          /\ jobs[u].description = jobs[w].description
          /\ jobs[u].t0 = jobs[w].t0
          => jobs[u].name = jobs[w].name
    /\ \A u \in Users :
          /\ jobs[u].pc = "done"
          /\ jobs[u].ret # <<>>
          /\ jobs[u].ret \notin DOMAIN archives
          => \E w \in Users \ {u} : jobs[w].pc # "idle"
                                    /\ jobs[w].name = jobs[u].name

\* both calls have ended; one returned the path of an archive, the other
\* returned None, and no archive of that name exists
C26_Witness ==
    \E u \in Users, w \in Users :
        /\ jobs[u].pc = "done" /\ jobs[w].pc = "done"
        /\ jobs[u].ret # <<>>
        /\ jobs[w].ret = <<>>
        /\ jobs[u].t0 = jobs[w].t0
        /\ jobs[u].ret \notin DOMAIN archives

\* C28: for every namespace at most one SmartCache is ever constructed, and
\* every caller of get_namespace is handed that one instance, also when the
\* calls of two threads overlap.
C28_OneInstancePerNamespace ==
    /\ namespaces.made <= Cardinality(DOMAIN namespaces.reg)
    /\ \A p \in namespaces.returned, q \in namespaces.returned :
          p[1] = q[1] => p[2] = q[2]

\* C27: at most one backup is started in a scheduled hour, also when
\* schedule_backup has been called more than once: the second call adds no
\* loop that fires on its own.
C27_OneBackupPerScheduledHour ==
    \A f \in Range(sched.fires), g \in Range(sched2.fires) :
        ~(Day(f.at) = Day(g.at) /\ HourOf(f.at) = HourOf(g.at))

\* the paths of the working directory a step writes
Written == {p \in DOMAIN app_fs' : p \notin DOMAIN app_fs \/ app_fs'[p] # app_fs[p]}

\* C29: restore_backup(archive, "configs_only") of an archive create_backup
\* made writes every configuration file the archive captured back to the path
\* it was copied from, the files under data_wilo included, and writes no
\* other path.
C29_ConfigsRoundTrip ==
    [][result'.op = "restore_backup" =>
         \A a \in DOMAIN archives :
            (a[2] >= 0 /\ RestoreBackup(a, "configs_only", AllOk)) =>
               /\ \A c \in ConfigFiles :
                     <<"config", c[2]>> \in DOMAIN archives[a].files =>
                        /\ c[2] \in result'.copied
                        /\ c \in DOMAIN app_fs'
                        /\ app_fs'[c] = archives[a].files[<<"config", c[2]>>]
               /\ Written \subseteq ConfigFiles]_vars

=============================================================================
